---- MODULE Spec2Model ----
(***************************************************************************)
(* A model of models/data_utils/utils.py: the two node sequencers          *)
(* (sort_nodes_and_edges_bfs, sort_nodes_and_edges), the grid generator    *)
(* (get_gridX) and the raw-sample loader (load_rawdata).                   *)
(*                                                                         *)
(* One behaviour is one call of one function.  The variable `call` names   *)
(* the function, `pc` the statement the call has reached, and the other    *)
(* variables are the locals of the function, under their Python names.     *)
(*                                                                         *)
(* Numbers.  Positions are integer points.  A Euclidean norm is kept as    *)
(* its square (the square root is strictly increasing on the non-negative  *)
(* reals, so every comparison of norms is the comparison of the squares).  *)
(* An azimuth of the sequencer is kept in units of pi/4, an azimuth of the *)
(* loader in units of pi/2, an x of the loader in units of 1/2; a quotient *)
(* is kept as the pair <<numerator, denominator>>.                         *)
(***************************************************************************)
EXTENDS Integers, Sequences, FiniteSets, TLC

VARIABLES
    call,                    \* the function being called
    pc,                      \* the statement reached
    result,                  \* the returned value, NoValue until the return
    pos_np,                  \* sequencers: the [N, 3] position array
    edges_np,                \* sequencers: the rows <<src, dst>> of the edge array
    sorted_distance_indices, \* bfs: np.argsort(distances)
    adjacency,               \* bfs: the defaultdict(list)
    visited,                 \* bfs: the boolean array
    new_order,               \* bfs: the output list
    queue,                   \* bfs: the deque
    seed,                    \* bfs: position of the outer for loop (1-based)
    sizes,                   \* get_gridX, load_rawdata: <<sizes[0], sizes[1]>>
    i_idx,                   \* get_gridX: arange(sizes[0]) / sizes[0]
    j_idx,                   \* get_gridX: arange(sizes[1]) / sizes[1]
    grid,                    \* get_gridX: <<i_grid, j_grid>>
    rawdata,                 \* load_rawdata: the rows <<field 0, field 1>>
    H,                       \* load_rawdata: the 2-D count histogram
    ray_data,                \* load_rawdata: the normalised histogram, flat
    choice                   \* load_rawdata: the indices np.random.choice drew

vars == <<call, pc, result, pos_np, edges_np, sorted_distance_indices,
          adjacency, visited, new_order, queue, seed, sizes, i_idx, j_idx,
          grid, rawdata, H, ray_data, choice>>

seqVars == <<pos_np, edges_np, sorted_distance_indices, adjacency, visited,
             new_order, queue, seed>>
gridVars == <<i_idx, j_idx, grid>>
loadVars == <<rawdata, H, ray_data, choice>>

NoValue == "none"

(***************************************************************************)
(* Bounds of the model.                                                    *)
(***************************************************************************)
MaxNodes == 3
MaxEdges == 2
MaxLexNodes == 2

Min(a, b) == IF a <= b THEN a ELSE b

\* The sequences of length at most n over the set S.
SeqsUpTo(S, n) == UNION {[1..k -> S] : k \in 0..n}

\* The number of nodes: pos_np.shape[0].
num_nodes == Len(pos_np)

\* The node ids 0 .. N-1 as Python sees them.
NodeIds == 0..(num_nodes - 1)

\* Row `node` of pos_np (node ids are 0-based, TLA+ sequences 1-based).
Pos(node) == pos_np[node + 1]

\* The squared Euclidean norm of a position; it orders as the norm does.
Norm2(p) == p[1] * p[1] + p[2] * p[2] + p[3] * p[3]

\* distances = np.linalg.norm(pos_np, axis=1), by node id.
distances == [node \in NodeIds |-> Norm2(Pos(node))]

\* The orders of the ids 0 .. n-1, as sequences.
Orders(n) == {s \in [1..n -> 0..(n - 1)] :
                \A i, j \in 1..n : i /= j => s[i] /= s[j]}

(***************************************************************************)
(* np.argsort(distances) with the default kind ("quicksort"): NumPy        *)
(* documents it as not stable, and its vectorised builds do reorder equal  *)
(* keys, so the result is any order of the ids that is ascending in the    *)
(* distance.                                                               *)
(***************************************************************************)
Argsort(d) ==
    {s \in Orders(num_nodes) :
        \A i, j \in 1..num_nodes : i < j => d[s[i]] <= d[s[j]]}

\* The keys the defaultdict can be asked for.
AdjKeys == (0 - num_nodes - 1)..(num_nodes + 1)

\* The for loop of step 3: adjacency[src].append(dst), edge by edge.
RECURSIVE BuildAdjacencyFrom(_, _)
BuildAdjacencyFrom(k, adj) ==
    IF k > Len(edges_np) THEN adj
    ELSE LET src == edges_np[k][1]
             dst == edges_np[k][2]
         IN  BuildAdjacencyFrom(k + 1, [adj EXCEPT ![src] = Append(@, dst)])

BuildAdjacency == BuildAdjacencyFrom(1, [key \in AdjKeys |-> <<>>])

\* visited[i] of a NumPy array of length N: a negative i counts from the end,
\* an i outside -N .. N-1 raises IndexError.
InBounds(i) == (0 - num_nodes) <= i /\ i < num_nodes
Wrap(i) == IF i < 0 THEN i + num_nodes ELSE i

(***************************************************************************)
(* The inner for loop over adjacency[current], from its k-th neighbour:    *)
(* the visited array and the queue it leaves, and whether visited[...]     *)
(* raised.                                                                 *)
(***************************************************************************)
\* The inner for loop without its visited[neighbor] = True.
RECURSIVE VisitNeighborsNoMark(_, _, _, _)
VisitNeighborsNoMark(nbrs, k, vis, q) ==
    IF k > Len(nbrs) THEN [visited |-> vis, queue |-> q, raised |-> FALSE]
    ELSE LET neighbor == nbrs[k] IN
         IF ~InBounds(neighbor)
         THEN [visited |-> vis, queue |-> q, raised |-> TRUE]
         ELSE IF vis[Wrap(neighbor)]
              THEN VisitNeighborsNoMark(nbrs, k + 1, vis, q)
              ELSE VisitNeighborsNoMark(nbrs, k + 1, vis, Append(q, neighbor))

\* The inner for loop as written.
RECURSIVE VisitNeighbors(_, _, _, _)
VisitNeighbors(nbrs, k, vis, q) ==
    IF k > Len(nbrs) THEN [visited |-> vis, queue |-> q, raised |-> FALSE]
    ELSE LET neighbor == nbrs[k] IN
         IF ~InBounds(neighbor)
         THEN [visited |-> vis, queue |-> q, raised |-> TRUE]
         ELSE IF vis[Wrap(neighbor)]
              THEN VisitNeighbors(nbrs, k + 1, vis, q)
              ELSE VisitNeighbors(nbrs, k + 1,
                                  [vis EXCEPT ![Wrap(neighbor)] = TRUE],
                                  Append(q, neighbor))

\* queue.pop() in the place of popleft(): the queue used as a stack.
PopRight(q) == [node |-> q[Len(q)], rest |-> SubSeq(q, 1, Len(q) - 1)]

\* queue.popleft(): the node taken and the queue left.
Popleft(q) == [node |-> Head(q), rest |-> Tail(q)]

(***************************************************************************)
(* sort_nodes_and_edges: the keys and np.lexsort.                          *)
(***************************************************************************)
\* np.arctan2(z, y) for y, z in {-1, 0, 1}, in units of pi/4: in (-4, 4].
Arctan2(z, y) ==
    CASE y = 0  /\ z = 0  -> 0
      [] y = 1  /\ z = 0  -> 0
      [] y = 1  /\ z = 1  -> 1
      [] y = 0  /\ z = 1  -> 2
      [] y = -1 /\ z = 1  -> 3
      [] y = -1 /\ z = 0  -> 4
      [] y = -1 /\ z = -1 -> -3
      [] y = 0  /\ z = -1 -> -2
      [] y = 1  /\ z = -1 -> -1

\* 2 * pi in units of pi/4.
TwoPi == 8

\* r = np.sqrt(x**2 + y**2 + z**2), kept as its square.
KeyR == [node \in NodeIds |-> Norm2(Pos(node))]
\* x = pos_np[:, 0]
KeyX == [node \in NodeIds |-> Pos(node)[1]]
\* phi = np.arctan2(z, y) % (2 * np.pi)
KeyPhi == [node \in NodeIds |-> Arctan2(Pos(node)[3], Pos(node)[2]) % TwoPi]

\* One pass of np.lexsort: the stable indirect sort of `order` by `key`,
\* each id placed after the ids already placed whose key is not greater.
InsertStable(sorted, node, key) ==
    LET k == Cardinality({i \in 1..Len(sorted) : key[sorted[i]] <= key[node]})
    IN  SubSeq(sorted, 1, k) \o <<node>> \o SubSeq(sorted, k + 1, Len(sorted))

RECURSIVE StableSortFrom(_, _, _, _)
StableSortFrom(order, k, sorted, key) ==
    IF k > Len(order) THEN sorted
    ELSE StableSortFrom(order, k + 1, InsertStable(sorted, order[k], key), key)

StableSort(order, key) == StableSortFrom(order, 1, <<>>, key)

\* np.lexsort((phi, r, x)): the keys in another order, x the primary one.
LexsortXPrimary ==
    LET ids == [i \in 1..num_nodes |-> i - 1]
    IN  StableSort(StableSort(StableSort(ids, KeyPhi), KeyR), KeyX)

\* np.lexsort((phi, x, r)): a stable sort by each key in turn, the last key
\* (r) being the primary one.
Lexsort ==
    LET ids == [i \in 1..num_nodes |-> i - 1]
    IN  StableSort(StableSort(StableSort(ids, KeyPhi), KeyX), KeyR)

(***************************************************************************)
(* The inputs of the sequencers.                                           *)
(***************************************************************************)
\* Positions given to sort_nodes_and_edges_bfs: two distances from the origin.
PointsBFS == {<<1, 0, 0>>, <<0, 2, 0>>}

\* Positions given to sort_nodes_and_edges: the integer points of the cube.
PointsLex == {<<x, y, z>> : x \in {-1, 0, 1}, y \in {-1, 0, 1}, z \in {-1, 0, 1}}

\* The ids of an EdgeList over n nodes, and the ids an array of edges may
\* carry beyond them: one id out of range on each side.
ValidIds(n) == 0..(n - 1)
AnyIds(n) == (-1)..n

\* The scenario of the specification: five points, four edges.
ScenarioPos == << <<0, 0, 0>>, <<1, 0, 0>>, <<2, 0, 0>>, <<0, 1, 0>>, <<0, 2, 0>> >>
ScenarioEdges == << <<0, 1>>, <<1, 2>>, <<0, 3>>, <<3, 4>> >>

\* The inputs of the BFS sequencer: the scenario, and the positions and edge
\* rows up to the bounds, the ids of the edges valid or any.
BfsInputs(any) ==
    {<<ScenarioPos, ScenarioEdges>>} \cup
    UNION {{<<p, e>> : e \in SeqsUpTo((IF any THEN AnyIds(Len(p)) ELSE ValidIds(Len(p)))
                                      \X (IF any THEN AnyIds(Len(p)) ELSE ValidIds(Len(p))),
                                      MaxEdges)} :
              p \in SeqsUpTo(PointsBFS, MaxNodes)}

LexInputs == {<<p, <<>> >> : p \in SeqsUpTo(PointsLex, MaxLexNodes)}

SeqIdle ==
    /\ sorted_distance_indices = <<>>
    /\ adjacency = <<>>
    /\ visited = <<>>
    /\ new_order = <<>>
    /\ queue = <<>>
    /\ seed = 0

GridIdle == i_idx = <<>> /\ j_idx = <<>> /\ grid = <<>>

LoadIdle == rawdata = <<>> /\ H = <<>> /\ ray_data = <<>> /\ choice = <<>>

InitCall(fn, inputs, first) ==
    /\ call = fn
    /\ \E in \in inputs : pos_np = in[1] /\ edges_np = in[2]
    /\ pc = first
    /\ result = NoValue
    /\ SeqIdle
    /\ sizes = <<>>
    /\ GridIdle
    /\ LoadIdle

\* A call of either sequencer on a PointSet and an EdgeList over it.
InitSeq ==
    \/ InitCall("sort_nodes_and_edges_bfs", BfsInputs(FALSE), "argsort")
    \/ InitCall("sort_nodes_and_edges", LexInputs, "lexsort")

\* A call of the BFS sequencer on an edge array whose ids may be out of range.
InitAnyEdges == InitCall("sort_nodes_and_edges_bfs", BfsInputs(TRUE), "argsort")

(***************************************************************************)
(* sort_nodes_and_edges_bfs, statement by statement.                       *)
(***************************************************************************)
\* Steps 1 and 2: the distances and their argsort.
ArgsortStep ==
    /\ call = "sort_nodes_and_edges_bfs" /\ pc = "argsort"
    /\ sorted_distance_indices' \in Argsort(distances)
    /\ pc' = "adjacency"
    /\ UNCHANGED <<call, result, pos_np, edges_np, adjacency, visited, new_order,
                   queue, seed, sizes, gridVars, loadVars>>

\* Step 3: the adjacency lists; then visited and new_order are created and the
\* outer for loop starts.
AdjacencyStep ==
    /\ call = "sort_nodes_and_edges_bfs" /\ pc = "adjacency"
    /\ adjacency' = BuildAdjacency
    /\ visited' = [node \in NodeIds |-> FALSE]
    /\ new_order' = <<>>
    /\ seed' = 1
    /\ pc' = "for"
    /\ UNCHANGED <<call, result, pos_np, edges_np, sorted_distance_indices, queue,
                   sizes, gridVars, loadVars>>

\* An iteration of the outer for loop on a node already visited.
SeedSkip ==
    /\ call = "sort_nodes_and_edges_bfs" /\ pc = "for"
    /\ seed <= num_nodes
    /\ visited[sorted_distance_indices[seed]]
    /\ seed' = seed + 1
    /\ UNCHANGED <<call, pc, result, pos_np, edges_np, sorted_distance_indices,
                   adjacency, visited, new_order, queue, sizes, gridVars, loadVars>>

\* An iteration of the outer for loop on an unvisited node: a new queue.
SeedStart ==
    /\ call = "sort_nodes_and_edges_bfs" /\ pc = "for"
    /\ seed <= num_nodes
    /\ ~visited[sorted_distance_indices[seed]]
    /\ queue' = <<sorted_distance_indices[seed]>>
    /\ visited' = [visited EXCEPT ![sorted_distance_indices[seed]] = TRUE]
    /\ pc' = "while"
    /\ UNCHANGED <<call, result, pos_np, edges_np, sorted_distance_indices,
                   adjacency, new_order, seed, sizes, gridVars, loadVars>>

\* An iteration of the while loop: popleft, append, the inner for loop; an
\* IndexError of visited[neighbor] ends the call, and an empty queue ends the
\* while loop and this iteration of the outer for loop.
Dequeue ==
    /\ call = "sort_nodes_and_edges_bfs" /\ pc = "while"
    /\ queue /= <<>>
    /\ LET current == Popleft(queue).node
           after == VisitNeighbors(adjacency[current], 1, visited,
                                   Popleft(queue).rest)
       IN  /\ new_order' = Append(new_order, current)
           /\ visited' = after.visited
           /\ queue' = after.queue
           /\ pc' = IF after.raised THEN "raised"
                    ELSE IF after.queue = <<>> THEN "for" ELSE "while"
           /\ seed' = IF ~after.raised /\ after.queue = <<>> THEN seed + 1 ELSE seed
    /\ UNCHANGED <<call, result, pos_np, edges_np, sorted_distance_indices,
                   adjacency, sizes, gridVars, loadVars>>

\* The outer for loop is over: return np.array(new_order).
ReturnBfs ==
    /\ call = "sort_nodes_and_edges_bfs" /\ pc = "for"
    /\ seed > num_nodes
    /\ result' = new_order
    /\ pc' = "done"
    /\ UNCHANGED <<call, seqVars, sizes, gridVars, loadVars>>

(***************************************************************************)
(* sort_nodes_and_edges: the keys, the lexsort, the return.                *)
(***************************************************************************)
SortNodesAndEdges ==
    /\ call = "sort_nodes_and_edges" /\ pc = "lexsort"
    /\ result' = Lexsort
    /\ pc' = "done"
    /\ UNCHANGED <<call, seqVars, sizes, gridVars, loadVars>>

NextBfs ==
    \/ ArgsortStep
    \/ AdjacencyStep
    \/ SeedSkip
    \/ SeedStart
    \/ Dequeue
    \/ ReturnBfs

NextSeq == NextBfs \/ SortNodesAndEdges

\* Either sequencer called on a PointSet and an EdgeList over it.
SpecSeq == InitSeq /\ [][NextSeq]_vars

\* The BFS sequencer called on an edge array of arbitrary ids.
SpecAnyEdges == InitAnyEdges /\ [][NextBfs]_vars

(***************************************************************************)
(* Properties of the sequencers.                                           *)
(***************************************************************************)
IsBfs == call = "sort_nodes_and_edges_bfs"
IsLex == call = "sort_nodes_and_edges"

\* s holds every id of 0 .. n-1 exactly once and nothing else.
IsPermutation(s, n) ==
    /\ Len(s) = n
    /\ \A id \in 0..(n - 1) : Cardinality({k \in 1..Len(s) : s[k] = id}) = 1

Range(s) == {s[k] : k \in DOMAIN s}

\* The reference traversal: the outgoing neighbours of u in edge-list order.
RECURSIVE RefOut(_, _)
RefOut(edges, u) ==
    IF edges = <<>> THEN <<>>
    ELSE (IF Head(edges)[1] = u THEN <<Head(edges)[2]>> ELSE <<>>)
         \o RefOut(Tail(edges), u)

\* The nodes of nbrs not in seen, each once, in their order of first occurrence.
RECURSIVE RefFresh(_, _)
RefFresh(nbrs, seen) ==
    IF nbrs = <<>> THEN <<>>
    ELSE IF Head(nbrs) \in seen THEN RefFresh(Tail(nbrs), seen)
         ELSE <<Head(nbrs)>> \o RefFresh(Tail(nbrs), seen \cup {Head(nbrs)})

\* One FIFO traversal: q is the queue, out the nodes appended so far.
RECURSIVE RefFifo(_, _, _)
RefFifo(q, out, edges) ==
    IF q = <<>> THEN out
    ELSE RefFifo(Tail(q) \o RefFresh(RefOut(edges, Head(q)), Range(q) \cup Range(out)),
                 Append(out, Head(q)), edges)

\* Every node of rank tried as a seed in turn, from the k-th on.
RECURSIVE RefSeeds(_, _, _, _)
RefSeeds(rank, k, out, edges) ==
    IF k > Len(rank) THEN out
    ELSE IF rank[k] \in Range(out) THEN RefSeeds(rank, k + 1, out, edges)
         ELSE RefSeeds(rank, k + 1, RefFifo(<<rank[k]>>, out, edges), edges)

\* s lists the ids of 0 .. N-1 in ascending distance from the origin.
AscendingDistance(s) ==
    /\ IsPermutation(s, num_nodes)
    /\ \A i, j \in 1..Len(s) : i < j => Norm2(Pos(s[i])) <= Norm2(Pos(s[j]))

DistanceTieStability ==
    (IsBfs /\ pc /= "argsort") =>
        \A i, j \in 1..Len(sorted_distance_indices) :
            (i < j /\ distances[sorted_distance_indices[i]]
                        = distances[sorted_distance_indices[j]])
                => sorted_distance_indices[i] < sorted_distance_indices[j]

\* Lexicographic comparison of two key triples.
TupleLeq(a, b) ==
    \/ a[1] < b[1]
    \/ a[1] = b[1] /\ a[2] < b[2]
    \/ a[1] = b[1] /\ a[2] = b[2] /\ a[3] <= b[3]

\* The key (r, x, phi) of a node.
LexKey(node) == <<KeyR[node], KeyX[node], KeyPhi[node]>>

\* C4: of two consecutive entries a, b of what the lexicographic sequencer
\* returns, the key (r, x, phi) of a is at most that of b, with phi in
\* [0, 2 pi); and when the keys are equal, a is the smaller node id.
LexOrderCorrect ==
    (IsLex /\ pc = "done") =>
        \A k \in 1..(Len(result) - 1) :
            LET a == result[k]
                b == result[k + 1]
            IN  /\ KeyPhi[a] \in 0..(TwoPi - 1) /\ KeyPhi[b] \in 0..(TwoPi - 1)
                /\ TupleLeq(LexKey(a), LexKey(b))
                /\ LexKey(a) = LexKey(b) => a < b

\* C4 witness: two nodes of equal r and x returned in the order of their
\* azimuths, the second node's arctan2 being negative before normalisation.
LexOrderCorrectWitness ==
    /\ IsLex /\ pc = "done"
    /\ pos_np = << <<0, -1, 0>>, <<0, 0, -1>> >>
    /\ Arctan2(-1, 0) < 0
    /\ result = <<0, 1>>

\* An edge with src or dst outside [0, N).
HasInvalidEdge ==
    \E k \in 1..Len(edges_np) :
        edges_np[k][1] \notin NodeIds \/ edges_np[k][2] \notin NodeIds

\* C5: with an edge out of range the call fails in the adjacency-building
\* step: it gets no further, nothing is traversed and nothing is returned.
InvalidEdgeRejected ==
    (IsBfs /\ HasInvalidEdge) =>
        /\ pc \in {"argsort", "adjacency", "raised"}
        /\ new_order = <<>>
        /\ result = NoValue

(***************************************************************************)
(* get_gridX.                                                              *)
(***************************************************************************)
MaxGrid == 4

\* The grid sizes tried: negative, zero and positive.
GridSizes == (-1)..MaxGrid

\* torch.arange(n) / n for n >= 0: the quotients k / n, k = 0 .. n-1.
ArangeOver(n) == [k \in 1..n |-> <<k - 1, n>>]

\* torch.meshgrid(i_idx, j_idx, indexing='xy'): the grids transposed.
MeshgridXY(ii, jj) ==
    << [a \in 1..Len(jj) |-> [b \in 1..Len(ii) |-> ii[b]]],
       [a \in 1..Len(jj) |-> [b \in 1..Len(ii) |-> jj[a]]] >>

\* torch.meshgrid(i_idx, j_idx, indexing='ij'): two grids of shape
\* (len(i_idx), len(j_idx)), the first constant along its rows.
Meshgrid(ii, jj) ==
    << [a \in 1..Len(ii) |-> [b \in 1..Len(jj) |-> ii[a]]],
       [a \in 1..Len(ii) |-> [b \in 1..Len(jj) |-> jj[b]]] >>

\* q * 2 - 1 of a quotient q.
TwiceMinusOne(q) == <<2 * q[1] - q[2], q[2]>>

\* The direction (x, r cos(phi), r sin(phi)), r = sqrt(1 - x^2), kept as the
\* pair that determines it: x, and phi in units of pi.
Direction(x, phi) == [x |-> x, phi |-> phi]

\* The rows of a 2-D array one after the other: reshape(-1, 3) of the
\* stacked (rows, columns, 3) tensor.
RECURSIVE FlattenFrom(_, _)
FlattenFrom(g, a) == IF a > Len(g) THEN <<>> ELSE g[a] \o FlattenFrom(g, a + 1)

\* Lines 77-82: pos_x, pos_phi, the stacked directions, flattened.
StackDirections(g) ==
    FlattenFrom([a \in 1..Len(g[1]) |->
                    [b \in 1..Len(g[1][a]) |->
                        Direction(TwiceMinusOne(g[1][a][b]),
                                  TwiceMinusOne(g[2][a][b]))]], 1)

InitGrid ==
    /\ call = "get_gridX"
    /\ sizes \in GridSizes \X GridSizes
    /\ pc = "arange_i"
    /\ result = NoValue
    /\ pos_np = <<>> /\ edges_np = <<>>
    /\ SeqIdle
    /\ GridIdle
    /\ LoadIdle

\* Line 74: torch.arange raises on a negative end.
ArangeI ==
    /\ call = "get_gridX" /\ pc = "arange_i"
    /\ IF sizes[1] < 0
       THEN pc' = "raised" /\ UNCHANGED i_idx
       ELSE pc' = "arange_j" /\ i_idx' = ArangeOver(sizes[1])
    /\ UNCHANGED <<call, result, sizes, seqVars, j_idx, grid, loadVars>>

\* Line 75.
ArangeJ ==
    /\ call = "get_gridX" /\ pc = "arange_j"
    /\ IF sizes[2] < 0
       THEN pc' = "raised" /\ UNCHANGED j_idx
       ELSE pc' = "meshgrid" /\ j_idx' = ArangeOver(sizes[2])
    /\ UNCHANGED <<call, result, sizes, seqVars, i_idx, grid, loadVars>>

\* Line 76.
MeshgridStep ==
    /\ call = "get_gridX" /\ pc = "meshgrid"
    /\ grid' = Meshgrid(i_idx, j_idx)
    /\ pc' = "stack"
    /\ UNCHANGED <<call, result, sizes, seqVars, i_idx, j_idx, loadVars>>

\* Lines 77-83.
ReturnGrid ==
    /\ call = "get_gridX" /\ pc = "stack"
    /\ result' = StackDirections(grid)
    /\ pc' = "done"
    /\ UNCHANGED <<call, sizes, seqVars, gridVars, loadVars>>

NextGrid == ArangeI \/ ArangeJ \/ MeshgridStep \/ ReturnGrid

SpecGrid == InitGrid /\ [][NextGrid]_vars

IsGrid == call = "get_gridX"

\* Equality of two quotients with positive denominators.
QEq(p, q) == p[1] * q[2] = q[1] * p[2]

\* C9: with W <= 0 or H <= 0 the call fails: it never returns, and no grid
\* (empty or otherwise) comes back.
NonPositiveGridRejected ==
    (IsGrid /\ (sizes[1] <= 0 \/ sizes[2] <= 0)) =>
        pc /= "done" /\ result = NoValue

\* C10: for W > 0 and H > 0 the grid returned has W * H directions, the one
\* at index i * H + j having x = 2 i / W - 1 and azimuth (2 j / H - 1) pi;
\* sizes (2, 2) give 4 directions whose x are all -1 or 0.
GridRowMajor ==
    (IsGrid /\ pc = "done" /\ sizes[1] > 0 /\ sizes[2] > 0) =>
        LET W == sizes[1]
            Hh == sizes[2]
        IN  /\ Len(result) = W * Hh
            /\ \A i \in 0..(W - 1), j \in 0..(Hh - 1) :
                  /\ QEq(result[i * Hh + j + 1].x, <<2 * i - W, W>>)
                  /\ QEq(result[i * Hh + j + 1].phi, <<2 * j - Hh, Hh>>)
            /\ sizes = <<2, 2>> =>
                  /\ Len(result) = 4
                  /\ \A n \in 1..4 : \/ QEq(result[n].x, <<-1, 1>>)
                                     \/ QEq(result[n].x, <<0, 1>>)

\* C10 witness: the grid of sizes (2, 3) has been returned, and its entry at
\* index 1 * 3 + 2 has x = 0 and azimuth pi / 3.
GridRowMajorWitness ==
    /\ IsGrid /\ pc = "done"
    /\ sizes = <<2, 3>>
    /\ Len(result) = 6
    /\ QEq(result[6].x, <<0, 1>>)
    /\ QEq(result[6].phi, <<1, 3>>)

(***************************************************************************)
(* load_rawdata.  A row of rawdata is <<field 0, field 1>>: x in units of  *)
(* 1/2 and the raw azimuth in units of pi/2.                               *)
(***************************************************************************)
MaxSamples == 3
MaxBins == 2

\* 1.0 in units of 1/2, and pi in units of pi/2.
One == 2
Pi == 2

\* The cap of the subsample.
RawCap == 8192

\* The rows tried: both ends and the inside of the x range and of the azimuth
\* range, an x beyond 1, an azimuth beyond 2 pi.
SampleRows == << <<-2, 0>>, <<0, 2>>, <<2, 4>>, <<1, 1>>, <<3, 3>>, <<-1, 5>> >>

\* A file of n rows for an n too large to enumerate the files of: the rows
\* above, over and over.
LargeFile(n) == [k \in 1..n |-> SampleRows[(k % Len(SampleRows)) + 1]]

\* The files of at most MaxSamples rows, and two files at and past the cap.
RawFiles == SeqsUpTo(Range(SampleRows), MaxSamples)
LargeFiles == {LargeFile(RawCap), LargeFile(RawCap + 1)}

\* The number of rows: rawdata.shape[0].
raw_rows == Len(rawdata)

\* Line 97: x = rawdata[:, 0].
x == [k \in 1..raw_rows |-> rawdata[k][1]]

\* Line 99: phi = rawdata[:, 1] - np.pi.
phi == [k \in 1..raw_rows |-> rawdata[k][2] - Pi]

\* np.linspace(lo, hi, n + 1), every edge multiplied by n (the edges are
\* lo + k (hi - lo) / n, k = 0 .. n).
Linspace(lo, hi, n) == [k \in 1..(n + 1) |-> lo * n + (k - 1) * (hi - lo)]

\* Lines 106, 107, as <<edges times n, n>>.
x_edges == <<Linspace(0 - One, One, sizes[1]), sizes[1]>>
phi_edges == <<Linspace(0 - Pi, Pi, sizes[2]), sizes[2]>>

\* np.searchsorted(edges, v, side='right'): how many edges are <= v.
Searchsorted(edges, v) ==
    Cardinality({k \in 1..Len(edges[1]) : edges[1][k] <= v * edges[2]})

\* The bin of v in np.histogramdd: searchsorted on the right, a value on the
\* last edge moved into the last bin; 0 and len(edges) are the outliers.
BinOf(edges, v) ==
    IF v * edges[2] = edges[1][Len(edges[1])]
    THEN Searchsorted(edges, v) - 1
    ELSE Searchsorted(edges, v)

\* np.histogram2d(xs, ys, bins=[x_edges, phi_edges]): the counts of the inner
\* bins, the outliers dropped.
Histogram2d(xs, ys) ==
    [a \in 1..sizes[1] |->
        [b \in 1..sizes[2] |->
            Cardinality({k \in 1..raw_rows :
                            BinOf(x_edges, xs[k]) = a /\ BinOf(phi_edges, ys[k]) = b})]]

\* Line 110, with field 1 unshifted in the place of phi.
HistogramOfRaw == Histogram2d(x, [k \in 1..raw_rows |-> rawdata[k][2]])

\* Line 110: H, _, _ = np.histogram2d(x, phi, bins=[x_edges, phi_edges]).
Histogram == Histogram2d(x, phi)

RECURSIVE SumFrom(_, _)
SumFrom(s, k) == IF k > Len(s) THEN 0 ELSE s[k] + SumFrom(s, k + 1)

\* torch.sum of a flat sequence of counts.
Sum(s) == SumFrom(s, 1)

\* Lines 115, 116: every count divided by the sum of the counts and by
\* area = 4 pi / len.  A bin is kept in units of 1 / pi as the quotient
\* <<count * len, sum * 4>>; a denominator of 0 is the NaN of 0 / 0.
Normalize(flat) == [n \in 1..Len(flat) |-> <<flat[n] * Len(flat), Sum(flat) * 4>>]

\* raw_num without the cap.
RawNumUncapped(n) == n

\* Line 119: raw_num = min(8192, raw_X.shape[0]).
RawNum(n) == Min(RawCap, n)

\* Line 120: np.random.choice(n, num, replace=False), the first num entries of
\* a random order of 0 .. n-1.  Every order for n up to MaxSamples; beyond,
\* the orders that start anywhere and count upwards, wrapping at n.
Choices(n, num) ==
    IF n <= MaxSamples
    THEN {SubSeq(s, 1, num) : s \in Orders(n)}
    ELSE {[k \in 1..num |-> (k - 1 + start) % n] : start \in {0, 1, n - 1}}

\* Row k (0-based) of raw_X = np.column_stack((x, y, z)): the direction
\* rebuilt from x and the shifted azimuth.
RawX(k) == Direction(x[k + 1], phi[k + 1])

InitLoadOn(files) ==
    /\ call = "load_rawdata"
    /\ rawdata \in files
    /\ sizes \in (1..MaxBins) \X (1..MaxBins)
    /\ pc = "histogram"
    /\ result = NoValue
    /\ pos_np = <<>> /\ edges_np = <<>>
    /\ SeqIdle
    /\ GridIdle
    /\ H = <<>> /\ ray_data = <<>> /\ choice = <<>>

\* Lines 105-110.
HistogramStep ==
    /\ call = "load_rawdata" /\ pc = "histogram"
    /\ H' = Histogram
    /\ pc' = "normalize"
    /\ UNCHANGED <<call, result, sizes, seqVars, gridVars, rawdata, ray_data, choice>>

\* Lines 111-116: the flat histogram, the shape test and the normalisation.
NormalizeStep ==
    /\ call = "load_rawdata" /\ pc = "normalize"
    /\ IF Len(FlattenFrom(H, 1)) /= sizes[1] * sizes[2]
       THEN pc' = "exit" /\ UNCHANGED ray_data
       ELSE pc' = "subsample" /\ ray_data' = Normalize(FlattenFrom(H, 1))
    /\ UNCHANGED <<call, result, sizes, seqVars, gridVars, rawdata, H, choice>>

\* Lines 118-127: the subsample, and the return of (raw_data, ray_data).
SubsampleStep ==
    /\ call = "load_rawdata" /\ pc = "subsample"
    /\ choice' \in Choices(raw_rows, RawNum(raw_rows))
    /\ result' = [raw_data |-> [k \in 1..Len(choice') |-> RawX(choice'[k])],
                  ray_data |-> ray_data]
    /\ pc' = "done"
    /\ UNCHANGED <<call, sizes, seqVars, gridVars, rawdata, H, ray_data>>

NextLoad == HistogramStep \/ NormalizeStep \/ SubsampleStep

\* load_rawdata called on a file of a few rows.
InitLoad == InitLoadOn(RawFiles)
SpecLoad == InitLoad /\ [][NextLoad]_vars

\* load_rawdata called on a file of a few rows or of about RawCap rows.
InitLoadLarge == InitLoadOn(RawFiles \cup LargeFiles)
SpecLoadLarge == InitLoadLarge /\ [][NextLoad]_vars

IsLoad == call = "load_rawdata"

\* The bin (1-based) of v among n equal bins over [lo, hi], the last one
\* closed on the right; 0 for a v outside [lo, hi].
EqualWidthBin(v, lo, hi, n) ==
    IF v < lo \/ v > hi THEN 0
    ELSE IF v = hi THEN n
    ELSE ((v - lo) * n) \div (hi - lo) + 1

\* How many rows have x in the a-th bin and az[k] in the b-th.
CountIn(a, b, az) ==
    Cardinality({k \in 1..raw_rows :
                    /\ EqualWidthBin(rawdata[k][1], 0 - One, One, sizes[1]) = a
                    /\ EqualWidthBin(az[k], 0 - Pi, Pi, sizes[2]) = b})

\* C6 as stated: the azimuth axis of the histogram bins the raw field 1.
HistogramBinsRawAzimuth ==
    (IsLoad /\ pc /= "histogram") =>
        \A a \in 1..sizes[1], b \in 1..sizes[2] :
            H[a][b] = CountIn(a, b, [k \in 1..raw_rows |-> rawdata[k][2]])

\* C6 as amended: the azimuth axis of the histogram bins the shifted azimuth
\* (field 1 minus pi) over sizePhi equal bins of [-pi, pi], the same value
\* that the directions are rebuilt from; x is binned over sizeX equal bins of
\* [-1, 1].
HistogramBinsShiftedAzimuth ==
    (IsLoad /\ pc /= "histogram") =>
        /\ \A a \in 1..sizes[1], b \in 1..sizes[2] :
              H[a][b] = CountIn(a, b, [k \in 1..raw_rows |-> rawdata[k][2] - Pi])
        /\ pc = "done" =>
              \A k \in 1..Len(choice) :
                  result.raw_data[k].phi = rawdata[choice[k] + 1][2] - Pi

\* C6 witness: a row of raw azimuth 0 has been counted in the first azimuth
\* bin of two, where its shifted azimuth -pi lies, and not in the second,
\* where 0 lies.
HistogramBinsShiftedAzimuthWitness ==
    /\ IsLoad /\ pc = "done"
    /\ sizes = <<1, 2>>
    /\ rawdata = << <<-2, 0>> >>
    /\ H = << <<1, 0>> >>

\* C7: the histogram returned has no negative bin (and no NaN), and its bins
\* times the bin solid angle 4 pi / (sizeX * sizePhi) sum to one.
HistogramNormalized ==
    (IsLoad /\ pc = "done") =>
        LET bins == result.ray_data
        IN  /\ \A n \in 1..Len(bins) : bins[n][2] > 0 /\ bins[n][1] >= 0
            /\ 4 * Sum([n \in 1..Len(bins) |-> bins[n][1]])
                  = bins[1][2] * sizes[1] * sizes[2]

\* C8: the subsample has min(8192, N) rows, and they are the directions of
\* distinct rows of the input; for N <= 8192 every row of the input is there.
SubsampleBound ==
    (IsLoad /\ pc = "done") =>
        /\ Len(result.raw_data) = Min(8192, raw_rows)
        /\ Len(choice) = Len(result.raw_data)
        /\ \A k \in 1..Len(choice) :
              /\ choice[k] \in 0..(raw_rows - 1)
              /\ result.raw_data[k] = Direction(rawdata[choice[k] + 1][1],
                                                rawdata[choice[k] + 1][2] - Pi)
        /\ Cardinality(Range(choice)) = Len(choice)
        /\ raw_rows <= 8192 => Range(choice) = 0..(raw_rows - 1)

\* C8 witness: a file of 8193 rows has been loaded and 8192 of them returned.
SubsampleBoundWitness ==
    /\ IsLoad /\ pc = "done"
    /\ raw_rows = 8193
    /\ Len(result.raw_data) = 8192

====
